---- MODULE Spec2Model ----
(***************************************************************************)
(* Configuration read-through cache of client-manager: ConfigDAO over a    *)
(* gorm durable store and an optional Redis cache, called by               *)
(* ConfigService.                                                          *)
(***************************************************************************)
EXTENDS Integers, Sequences, FiniteSets, TLC

VARIABLES
    db,          \* configurations table: row i is the row with primary key i
    cache,       \* Redis: cache key -> [value, age, ttl], in minutes
    redis,       \* dao.redis != nil
    dbNoCache,   \* table of a second ConfigDAO built with redis == nil, given the same DAO calls
    last,        \* the call just made and what it returned, where calls are observed
    lastWrite,   \* the latest create/update/delete that returned nil, where writes are tracked
    noRedis,     \* AppConfig.NoRedis: the process was started with --no-redis
    pending,     \* a call that has made its first store access and not yet its second
    env,         \* what the process finds at start: whether the database and Redis answer
    requestCount,  \* utils.requestCount
    errorCount,    \* utils.errorCount
    goroutine,   \* each request goroutine: where it is and the count it saw on entry
    counted,     \* how many increments of each counter have returned
    listing,     \* the latest call of ConfigService.GetConfigurations and its response
    logs,        \* logs table: the rows in the order of their creation
    upserts,     \* the LogDAO.Upsert calls that have made their query and not yet written
    updating     \* the ConfigDAO.UpdateConfiguration calls that have saved and not yet cached

(* what the calls of the configuration DAO and service leave alone *)
elsewhere == <<env, requestCount, errorCount, goroutine, counted, listing, logs, upserts,
               updating>>

(* what the rest of the program leaves alone *)
configuration == <<db, cache, redis, dbNoCache, last, lastWrite, noRedis, pending>>

vars == <<db, cache, redis, dbNoCache, last, lastWrite, noRedis, pending, elsewhere>>

(* ---------------------------- bounds ----------------------------------- *)
MaxRows == 2
(* request goroutines running at once, and increments made in all *)
MaxGoroutines == 2
MaxCalls == 4
(* rows the count of a listing can find *)
MaxTotal == 6
(* rows of the logs table *)
MaxLogs == 3
(* minutes the clock advances at a time *)
TickMinutes == 3

Namespaces == {"build"}
Keys == {"timeout", "retries"}
Values == {"30", "60"}

(* 5*time.Minute, in minutes *)
TTL == 5

NoValue == "<nil>"

(* ---------------------------- durable store ---------------------------- *)
(* models.Configuration as the DAO uses it: ID is the row's position in db *)
Configuration(namespace, key, value, description) ==
    [Namespace |-> namespace, Key |-> key, Value |-> value, Description |-> description,
     Deleted |-> FALSE]

NilConfig == [ID |-> 0, Namespace |-> "", Key |-> "", Value |-> NoValue, Description |-> ""]

(* the description every entry is created with; "" is the zero value *)
SomeDescription == "seconds"

Live(d, id) == id \in 1..Len(d) /\ ~d[id].Deleted

Matching(d, namespace, key) ==
    {i \in 1..Len(d) : ~d[i].Deleted /\ d[i].Namespace = namespace /\ d[i].Key = key}

MinOf(S) == CHOOSE i \in S : \A j \in S : i <= j

(* db.Where("namespace = ? AND key = ?").First(&config): lowest primary key *)
DbFirstByKey(d, namespace, key, fail) ==
    IF fail THEN [err |-> "dberr", config |-> NilConfig]
    ELSE IF Matching(d, namespace, key) = {} THEN [err |-> "notfound", config |-> NilConfig]
    ELSE LET i == MinOf(Matching(d, namespace, key))
         IN [err |-> "none",
             config |-> [ID |-> i, Namespace |-> d[i].Namespace, Key |-> d[i].Key,
                         Value |-> d[i].Value, Description |-> d[i].Description]]

(* db.First(&config, id) *)
DbFirstByID(d, id, fail) ==
    IF fail THEN [err |-> "dberr", config |-> NilConfig]
    ELSE IF ~Live(d, id) THEN [err |-> "notfound", config |-> NilConfig]
    ELSE [err |-> "none",
          config |-> [ID |-> id, Namespace |-> d[id].Namespace, Key |-> d[id].Key,
                      Value |-> d[id].Value, Description |-> d[id].Description]]

(* ... the store refuses a second live row of one (namespace, key) *)
DbCreate_Unique(d, config, fail) ==
    IF fail \/ Matching(d, config.Namespace, config.Key) # {}
    THEN [err |-> "dberr", db |-> d]
    ELSE [err |-> "none",
          db |-> Append(d, Configuration(config.Namespace, config.Key, config.Value,
                                   config.Description))]

(* db.Create(config): a new row under the next primary key *)
DbCreate(d, config, fail) ==
    IF fail THEN [err |-> "dberr", db |-> d]
    ELSE [err |-> "none",
          db |-> Append(d, Configuration(config.Namespace, config.Key, config.Value,
                                   config.Description))]

(* db.Save(config): every column of the row config.ID is written.  When the *)
(* row has been soft-deleted the UPDATE matches nothing and gorm falls back *)
(* to an insert that updates on conflict: by gorm version and dialect that  *)
(* leaves the tombstone (upsert = FALSE) or writes the row back, live.      *)
DbSave(d, config, fail, upsert) ==
    IF fail THEN [err |-> "dberr", db |-> d]
    ELSE IF ~Live(d, config.ID) /\ ~(upsert /\ config.ID \in 1..Len(d))
    THEN [err |-> "none", db |-> d]
    ELSE [err |-> "none",
          db |-> [d EXCEPT ![config.ID] =
                     Configuration(config.Namespace, config.Key, config.Value,
                                   config.Description)]]

(* a soft-deleted row: it keeps its primary key and no query reads its columns again *)
Tombstone ==
    [Namespace |-> "", Key |-> "", Value |-> NoValue, Description |-> "", Deleted |-> TRUE]

(* db.Delete(&config) *)
DbDelete(d, id, fail) ==
    IF fail THEN [err |-> "dberr", db |-> d]
    ELSE IF ~Live(d, id) THEN [err |-> "none", db |-> d]
    ELSE [err |-> "none", db |-> [d EXCEPT ![id] = Tombstone]]

(* ---------------------------- cache ------------------------------------ *)
EmptyCache == [k \in {} |-> NoValue]

Held(c, k) == k \in DOMAIN c /\ c[k].ttl > 0

(* redis.Get(ctx, key).Result(): value, redis.Nil, or another error *)
RedisGet(c, k, fail) ==
    IF fail THEN [err |-> "err", value |-> NoValue]
    ELSE IF Held(c, k) THEN [err |-> "none", value |-> c[k].value]
    ELSE [err |-> "nil", value |-> NoValue]

(* redis.Set(ctx, key, value, expiration).Err() *)
RedisSet(c, k, v, expiration, fail) ==
    IF fail THEN [err |-> "err", cache |-> c]
    ELSE [err |-> "none",
          cache |-> [x \in DOMAIN c \cup {k} |->
                        IF x = k THEN [value |-> v, age |-> 0, ttl |-> expiration]
                        ELSE c[x]]]

(* ... the record stays *)
RedisDel_Keeps(c, k, fail) ==
    IF fail THEN [err |-> "err", cache |-> c] ELSE [err |-> "none", cache |-> c]

(* redis.Del(ctx, key).Err() *)
RedisDel(c, k, fail) ==
    IF fail THEN [err |-> "err", cache |-> c]
    ELSE [err |-> "none", cache |-> [x \in DOMAIN c \ {k} |-> c[x]]]

(* m minutes on: Redis drops the records whose time to live has run out *)
Expire(c, m) ==
    [x \in {k \in DOMAIN c : c[k].ttl > m} |->
        [value |-> c[x].value, age |-> c[x].age + m, ttl |-> c[x].ttl - m]]

(* a variant without the literal prefix, against which the key format is checked *)
CacheKey_NoPrefix(namespace, key) == namespace \o ":" \o key

CacheKey(namespace, key) == "config:" \o namespace \o ":" \o key

(* ---------------------------- ConfigDAO -------------------------------- *)
(* What a call returns: the stores after it, the record and error returned,  *)
(* the error of its durable step ("skipped": none was made) and the cache   *)
(* failures it logged.                                                      *)
Return(d, c, config, err, durable, warn) ==
    [db |-> d, cache |-> c, config |-> config, err |-> err, durable |-> durable,
     warn |-> warn]

NoFault ==
    [get |-> FALSE, set |-> FALSE, del |-> FALSE, find |-> FALSE, write |-> FALSE,
     upsert |-> FALSE]
Faults ==
    [get : BOOLEAN, set : BOOLEAN, del : BOOLEAN, find : BOOLEAN, write : BOOLEAN,
     upsert : BOOLEAN]
(* The failures a call can meet: only steps the call has, a later step only *)
(* when the earlier one let the call reach it, the cache only when there is *)
(* one.  upsert is no failure: it is the outcome of db.Save on a row that  *)
(* is no longer live, which only a call overtaken by a delete can meet.     *)
CacheFaults(r, f) == r \/ (~f.get /\ ~f.set /\ ~f.del)
GetFaults(r) == {f \in Faults : ~f.del /\ ~f.write /\ ~(f.find /\ f.set) /\ CacheFaults(r, f) /\ ~f.upsert}
CreateFaults(r) == {f \in Faults : ~f.get /\ ~f.set /\ ~f.find /\ ~(f.write /\ f.del)
                                   /\ CacheFaults(r, f) /\ ~f.upsert}
UpdateFaults(r) == {f \in Faults : ~f.get /\ ~f.del /\ ~f.find /\ ~(f.write /\ f.set)
                                   /\ CacheFaults(r, f) /\ ~f.upsert}
DeleteFaults(r) == {f \in Faults : ~f.get /\ ~f.set /\ ~(f.find /\ (f.write \/ f.del))
                                   /\ ~(f.write /\ f.del) /\ CacheFaults(r, f) /\ ~f.upsert}

(* Faulty variants of GetConfiguration: each property below that rests on  *)
(* the read path fails for one of them.                                     *)
(* ... the durable value is returned and never written back to the cache *)
GetConfiguration_NoPopulate(d, c, r, namespace, key, f) ==
    LET cacheKey == CacheKey(namespace, key)
        got == IF r THEN RedisGet(c, cacheKey, f.get) ELSE [err |-> "nil", value |-> NoValue]
        w1 == IF r /\ got.err = "err" THEN {"get"} ELSE {}
    IN IF r /\ got.err = "none"
       THEN Return(d, c, [ID |-> 0, Namespace |-> namespace, Key |-> key, Value |-> got.value,
                    Description |-> ""],
                   "none", "skipped", {})
       ELSE LET q == DbFirstByKey(d, namespace, key, f.find)
            IN IF q.err # "none"
               THEN Return(d, c, NilConfig, q.err, q.err, w1)
               ELSE Return(d, c, q.config, "none", "none", w1)

(* ... a cache hit starts the record's time to live again *)
GetConfiguration_HitExtends(d, c, r, namespace, key, f) ==
    LET cacheKey == CacheKey(namespace, key)
        got == IF r THEN RedisGet(c, cacheKey, f.get) ELSE [err |-> "nil", value |-> NoValue]
        w1 == IF r /\ got.err = "err" THEN {"get"} ELSE {}
    IN IF r /\ got.err = "none"
       THEN Return(d, [c EXCEPT ![cacheKey].ttl = TTL],
                   [ID |-> 0, Namespace |-> namespace, Key |-> key, Value |-> got.value,
                    Description |-> ""],
                   "none", "skipped", {})
       ELSE LET q == DbFirstByKey(d, namespace, key, f.find)
            IN IF q.err # "none"
               THEN Return(d, c, NilConfig, q.err, q.err, w1)
               ELSE IF r
                    THEN LET s == RedisSet(c, cacheKey, q.config.Value, TTL, f.set)
                         IN Return(d, s.cache, q.config, "none", "none",
                                   w1 \cup (IF s.err # "none" THEN {"set"} ELSE {}))
                    ELSE Return(d, c, q.config, "none", "none", w1)

(* ... a lookup that finds no row is remembered in the cache *)
GetConfiguration_NegativeCache(d, c, r, namespace, key, f) ==
    LET cacheKey == CacheKey(namespace, key)
        got == IF r THEN RedisGet(c, cacheKey, f.get) ELSE [err |-> "nil", value |-> NoValue]
        w1 == IF r /\ got.err = "err" THEN {"get"} ELSE {}
    IN IF r /\ got.err = "none"
       THEN Return(d, c, [ID |-> 0, Namespace |-> namespace, Key |-> key, Value |-> got.value,
                    Description |-> ""],
                   "none", "skipped", {})
       ELSE LET q == DbFirstByKey(d, namespace, key, f.find)
            IN IF q.err = "notfound" /\ r
               THEN Return(d, RedisSet(c, cacheKey, NoValue, TTL, f.set).cache, NilConfig,
                           q.err, q.err, w1)
               ELSE IF q.err # "none"
               THEN Return(d, c, NilConfig, q.err, q.err, w1)
               ELSE IF r
                    THEN LET s == RedisSet(c, cacheKey, q.config.Value, TTL, f.set)
                         IN Return(d, s.cache, q.config, "none", "none",
                                   w1 \cup (IF s.err # "none" THEN {"set"} ELSE {}))
                    ELSE Return(d, c, q.config, "none", "none", w1)

(* ... a cache hit is completed with the columns of the durable row *)
GetConfiguration_HitReadsRow(d, c, r, namespace, key, f) ==
    LET cacheKey == CacheKey(namespace, key)
        got == IF r THEN RedisGet(c, cacheKey, f.get) ELSE [err |-> "nil", value |-> NoValue]
        w1 == IF r /\ got.err = "err" THEN {"get"} ELSE {}
        q == DbFirstByKey(d, namespace, key, f.find)
    IN IF r /\ got.err = "none" /\ q.err = "none"
       THEN Return(d, c, [q.config EXCEPT !.Value = got.value], "none", "skipped", {})
       ELSE IF r /\ got.err = "none"
       THEN Return(d, c, [ID |-> 0, Namespace |-> namespace, Key |-> key, Value |-> got.value,
                          Description |-> ""],
                   "none", "skipped", {})
       ELSE IF q.err # "none"
       THEN Return(d, c, NilConfig, q.err, q.err, w1)
       ELSE IF r
       THEN LET s == RedisSet(c, cacheKey, q.config.Value, TTL, f.set)
            IN Return(d, s.cache, q.config, "none", "none",
                      w1 \cup (IF s.err # "none" THEN {"set"} ELSE {}))
       ELSE Return(d, c, q.config, "none", "none", w1)

(* ... the cache is used without asking whether there is one *)
GetConfiguration_NoNilCheck(d, c, r, namespace, key, f) ==
    LET cacheKey == CacheKey(namespace, key)
        got == RedisGet(c, cacheKey, f.get)
        w1 == IF got.err = "err" THEN {"get"} ELSE {}
    IN IF got.err = "none"
       THEN Return(d, c, [ID |-> 0, Namespace |-> namespace, Key |-> key, Value |-> got.value,
                          Description |-> ""],
                   "none", "skipped", {})
       ELSE LET q == DbFirstByKey(d, namespace, key, f.find)
            IN IF q.err # "none"
               THEN Return(d, c, NilConfig, q.err, q.err, w1)
               ELSE LET s == RedisSet(c, cacheKey, q.config.Value, TTL, f.set)
                    IN Return(d, s.cache, q.config, "none", "none",
                              w1 \cup (IF s.err # "none" THEN {"set"} ELSE {}))

(* ... a cache error other than redis.Nil is returned to the caller *)
GetConfiguration_CacheErrorReturned(d, c, r, namespace, key, f) ==
    LET cacheKey == CacheKey(namespace, key)
        got == IF r THEN RedisGet(c, cacheKey, f.get) ELSE [err |-> "nil", value |-> NoValue]
    IN IF r /\ got.err = "none"
       THEN Return(d, c, [ID |-> 0, Namespace |-> namespace, Key |-> key, Value |-> got.value,
                    Description |-> ""],
                   "none", "skipped", {})
       ELSE IF r /\ got.err = "err"
       THEN Return(d, c, NilConfig, "cacheerr", "skipped", {"get"})
       ELSE LET q == DbFirstByKey(d, namespace, key, f.find)
            IN IF q.err # "none"
               THEN Return(d, c, NilConfig, q.err, q.err, {})
               ELSE IF r
                    THEN LET s == RedisSet(c, cacheKey, q.config.Value, TTL, f.set)
                         IN Return(d, s.cache, q.config, "none", "none",
                                   IF s.err # "none" THEN {"set"} ELSE {})
                    ELSE Return(d, c, q.config, "none", "none", {})

GetConfiguration(d, c, r, namespace, key, f) ==
    LET cacheKey == CacheKey(namespace, key)
        got == IF r THEN RedisGet(c, cacheKey, f.get) ELSE [err |-> "nil", value |-> NoValue]
        w1 == IF r /\ got.err = "err" THEN {"get"} ELSE {}
    IN IF r /\ got.err = "none"
       THEN Return(d, c, [ID |-> 0, Namespace |-> namespace, Key |-> key, Value |-> got.value,
                    Description |-> ""],
                   "none", "skipped", {})
       ELSE LET q == DbFirstByKey(d, namespace, key, f.find)
            IN IF q.err # "none"
               THEN Return(d, c, NilConfig, q.err, q.err, w1)
               ELSE IF r
                    THEN LET s == RedisSet(c, cacheKey, q.config.Value, TTL, f.set)
                         IN Return(d, s.cache, q.config, "none", "none",
                                   w1 \cup (IF s.err # "none" THEN {"set"} ELSE {}))
                    ELSE Return(d, c, q.config, "none", "none", w1)

GetSpecificConfiguration(d, c, r, namespace, key, f) ==
    LET cacheKey == CacheKey(namespace, key)
        got == IF r THEN RedisGet(c, cacheKey, f.get) ELSE [err |-> "nil", value |-> NoValue]
        w1 == IF r /\ got.err = "err" THEN {"get"} ELSE {}
    IN IF r /\ got.err = "none"
       THEN Return(d, c, [ID |-> 0, Namespace |-> namespace, Key |-> key, Value |-> got.value,
                    Description |-> ""],
                   "none", "skipped", {})
       ELSE LET q == DbFirstByKey(d, namespace, key, f.find)
            IN IF q.err # "none"
               THEN Return(d, c, NilConfig, q.err, q.err, w1)
               ELSE IF r
                    THEN LET s == RedisSet(c, cacheKey, q.config.Value, TTL, f.set)
                         IN Return(d, s.cache, q.config, "none", "none",
                                   w1 \cup (IF s.err # "none" THEN {"set"} ELSE {}))
                    ELSE Return(d, c, q.config, "none", "none", w1)

(* Faulty variants of the write operations, used the same way.             *)
(* ... create leaves the cache record of its key in place *)
CreateConfiguration_NoInvalidate(d, c, r, config, f) ==
    LET ins == DbCreate(d, config, f.write)
    IN IF ins.err # "none"
       THEN Return(d, c, config, ins.err, ins.err, {})
       ELSE Return(ins.db, c, [config EXCEPT !.ID = Len(ins.db)], "none", "none", {})

(* ... create deletes the cache record before it inserts the row *)
CreateConfiguration_CacheFirst(d, c, r, config, f) ==
    LET del == IF r THEN RedisDel(c, CacheKey(config.Namespace, config.Key), f.del)
               ELSE [err |-> "none", cache |-> c]
        w == IF del.err # "none" THEN {"del"} ELSE {}
        ins == DbCreate(d, config, f.write)
    IN IF ins.err # "none"
       THEN Return(d, del.cache, config, ins.err, ins.err, w)
       ELSE Return(ins.db, del.cache, [config EXCEPT !.ID = Len(ins.db)], "none", "none", w)

CreateConfiguration(d, c, r, config, f) ==
    LET ins == DbCreate(d, config, f.write)
    IN IF ins.err # "none"
       THEN Return(d, c, config, ins.err, ins.err, {})
       ELSE LET created == [config EXCEPT !.ID = Len(ins.db)]
            IN IF r
               THEN LET del == RedisDel(c, CacheKey(config.Namespace, config.Key), f.del)
                    IN Return(ins.db, del.cache, created, "none", "none",
                              IF del.err # "none" THEN {"del"} ELSE {})
               ELSE Return(ins.db, c, created, "none", "none", {})

(* ... update leaves the cache as it was *)
UpdateConfiguration_NoCacheWrite(d, c, r, config, f) ==
    LET sav == DbSave(d, config, f.write, f.upsert)
    IN IF sav.err # "none"
       THEN Return(d, c, config, sav.err, sav.err, {})
       ELSE Return(sav.db, c, config, "none", "none", {})

(* ... update returns the error of its cache set *)
UpdateConfiguration_CacheErrorReturned(d, c, r, config, f) ==
    LET sav == DbSave(d, config, f.write, f.upsert)
    IN IF sav.err # "none"
       THEN Return(d, c, config, sav.err, sav.err, {})
       ELSE IF r
            THEN LET s == RedisSet(c, CacheKey(config.Namespace, config.Key),
                                   config.Value, TTL, f.set)
                 IN IF s.err # "none"
                    THEN Return(sav.db, s.cache, config, "cacheerr", "none", {"set"})
                    ELSE Return(sav.db, s.cache, config, "none", "none", {})
            ELSE Return(sav.db, c, config, "none", "none", {})

UpdateConfiguration(d, c, r, config, f) ==
    LET sav == DbSave(d, config, f.write, f.upsert)
    IN IF sav.err # "none"
       THEN Return(d, c, config, sav.err, sav.err, {})
       ELSE IF r
            THEN LET s == RedisSet(c, CacheKey(config.Namespace, config.Key),
                                   config.Value, TTL, f.set)
                 IN Return(sav.db, s.cache, config, "none", "none",
                           IF s.err # "none" THEN {"set"} ELSE {})
            ELSE Return(sav.db, c, config, "none", "none", {})

(* ... delete leaves the cache record of the row's key in place *)
DeleteConfiguration_NoInvalidate(d, c, r, id, f) ==
    LET q == DbFirstByID(d, id, f.find)
    IN IF q.err # "none"
       THEN Return(d, c, NilConfig, q.err, q.err, {})
       ELSE LET rm == DbDelete(d, id, f.write)
            IN IF rm.err # "none"
               THEN Return(d, c, q.config, rm.err, rm.err, {})
               ELSE Return(rm.db, c, q.config, "none", "none", {})

(* ... delete goes on to the soft delete and the cache when the lookup fails *)
DeleteConfiguration_LookupIgnored(d, c, r, id, f) ==
    LET q == DbFirstByID(d, id, f.find)
        rm == DbDelete(d, id, f.write)
    IN IF rm.err # "none"
       THEN Return(d, c, q.config, rm.err, rm.err, {})
       ELSE IF r
            THEN LET del == RedisDel(c, CacheKey(q.config.Namespace, q.config.Key), f.del)
                 IN Return(rm.db, del.cache, q.config, "none", "none",
                           IF del.err # "none" THEN {"del"} ELSE {})
            ELSE Return(rm.db, c, q.config, "none", "none", {})

DeleteConfiguration(d, c, r, id, f) ==
    LET q == DbFirstByID(d, id, f.find)
    IN IF q.err # "none"
       THEN Return(d, c, NilConfig, q.err, q.err, {})
       ELSE LET rm == DbDelete(d, id, f.write)
            IN IF rm.err # "none"
               THEN Return(d, c, q.config, rm.err, rm.err, {})
               ELSE IF r
                    THEN LET del == RedisDel(c, CacheKey(q.config.Namespace, q.config.Key),
                                             f.del)
                         IN Return(rm.db, del.cache, q.config, "none", "none",
                                   IF del.err # "none" THEN {"del"} ELSE {})
                    ELSE Return(rm.db, c, q.config, "none", "none", {})

(* ---------------------------- service and controller ------------------- *)
(* Errors of the service are typed: "ValidationError", "ConflictError",     *)
(* "NotFoundError"; an error of the DAO is passed on as it is, "notfound"   *)
(* being gorm.ErrRecordNotFound and "dberr" any other error of the store.   *)
Absent == "<absent>"
(* a field of the request body that holds something other than a string *)
NotAString == "<number>"

(* ... the namespace is not looked at *)
ValidationField_KeyOnly(namespace, key) ==
    IF key = "" THEN "key" ELSE ""

(* the Field of the ValidationError of the two fetches, "" when they make none *)
ValidationField(namespace, key) ==
    IF namespace = "" THEN "namespace"
    ELSE IF key = "" THEN "key"
    ELSE ""

(* the same of create, whose fields come from the request body *)
DataValidationField(namespace, key) ==
    IF namespace \in {Absent, NotAString, ""} THEN "namespace"
    ELSE IF key \in {Absent, NotAString, ""} THEN "key"
    ELSE ""

ServiceGetConfiguration(d, c, r, namespace, key, f) ==
    IF ValidationField(namespace, key) # ""
    THEN Return(d, c, NilConfig, "ValidationError", "skipped", {})
    ELSE GetConfiguration(d, c, r, namespace, key, f)

ServiceGetSpecificConfiguration(d, c, r, namespace, key, f) ==
    IF ValidationField(namespace, key) # ""
    THEN Return(d, c, NilConfig, "ValidationError", "skipped", {})
    ELSE GetSpecificConfiguration(d, c, r, namespace, key, f)

(* f: what the duplicate check meets; g: what the DAO's create meets *)
ServiceCreateConfiguration(d, c, r, namespace, key, value, f, g) ==
    IF DataValidationField(namespace, key) # ""
    THEN Return(d, c, NilConfig, "ValidationError", "skipped", {})
    ELSE LET existing == GetSpecificConfiguration(d, c, r, namespace, key, f)
         IN IF existing.err = "none"
            THEN Return(existing.db, existing.cache, NilConfig, "ConflictError", "skipped",
                        existing.warn)
            ELSE LET res == CreateConfiguration(existing.db, existing.cache, r,
                                                [ID |-> 0, Namespace |-> namespace,
                                                 Key |-> key, Value |-> value,
                                                 Description |-> SomeDescription], g)
                 IN [res EXCEPT !.warn = @ \cup existing.warn]

(* data: the fields of the request body, Absent where the body has none;   *)
(* the bodies tried replace the key, the value or nothing                  *)
UpdateData ==
    {data \in [namespace : {Absent}, key : Keys \cup {Absent}, value : Values \cup {Absent}] :
        data.key = Absent \/ data.value = Absent}

Replaced(config, data) ==
    [config EXCEPT !.Value = IF data.value # Absent THEN data.value ELSE @,
                   !.Namespace = IF data.namespace # Absent THEN data.namespace ELSE @,
                   !.Key = IF data.key # Absent THEN data.key ELSE @]

(* s.configDAO.GetConfigurationByID and the NotFoundError made of its error *)
ServiceLoad(d, c, id, findFails) ==
    LET q == DbFirstByID(d, id, findFails)
    IN Return(d, c, q.config, IF q.err = "notfound" THEN "NotFoundError" ELSE q.err,
              "skipped", {})

ServiceUpdateConfiguration(d, c, r, id, data, findFails, g) ==
    LET loaded == ServiceLoad(d, c, id, findFails)
    IN IF loaded.err # "none" THEN loaded
       ELSE UpdateConfiguration(d, c, r, Replaced(loaded.config, data), g)

ServiceDeleteConfiguration(d, c, r, id, findFails, g) ==
    LET loaded == ServiceLoad(d, c, id, findFails)
    IN IF loaded.err # "none" THEN loaded
       ELSE DeleteConfiguration(d, c, r, id, g)

(* ConfigController.handleError: the HTTP status of an error *)
handleError(err) ==
    CASE err = "ValidationError" -> 400
      [] err = "ConflictError" -> 409
      [] err = "NotFoundError" -> 404
      [] OTHER -> 500

(* GET /configurations/{namespace}/{key} *)
ControllerGetSpecificConfiguration(d, c, r, namespace, key, f) ==
    LET res == ServiceGetSpecificConfiguration(d, c, r, namespace, key, f)
    IN [res |-> res, status |-> IF res.err = "none" THEN 200 ELSE handleError(res.err)]

(* ---------------------------- calls ------------------------------------ *)
(* last: the call just made and what it returned: a fetch's arguments and   *)
(* the value of the record returned; a create's arguments and the stale     *)
(* value the cache held for them; the id given to an update or delete.      *)
(* last.watch says which calls are recorded: "fetch", "write", "all", "none", *)
(* "service" (calls of the service), "halves" (calls made in two steps)     *)
Writes == {"create", "update", "delete"}

Idle ==
    [op |-> "none", ID |-> 0, Namespace |-> "", Key |-> "", Value |-> NoValue,
     err |-> "none", durable |-> "skipped", warn |-> {}, stale |-> NoValue,
     errNoCache |-> "none", watch |-> "all", status |-> 0, field |-> ""]

Rest == [Idle EXCEPT !.watch = last.watch]

Watched(op) ==
    \/ last.watch = "all"
    \/ last.watch = "fetch" /\ op = "fetch"
    \/ last.watch = "write" /\ op \in Writes

(* lastWrite: the arguments of that write, the minutes since it returned,   *)
(* the cache failures it logged and whether it changed the row's value      *)
NoWrite ==
    [op |-> "none", Namespace |-> "", Key |-> "", Value |-> NoValue,
     age |-> 0, warn |-> {}, changed |-> FALSE]

Untracked == [NoWrite EXCEPT !.op = "untracked"]

(* the value the durable store answers for (namespace, key), NoValue when none *)
DurableValue(d, namespace, key) == DbFirstByKey(d, namespace, key, FALSE).config.Value

(* the cached value of (namespace, key) when it differs from the durable one *)
StaleValue(d, c, namespace, key) ==
    IF Held(c, CacheKey(namespace, key))
       /\ c[CacheKey(namespace, key)].value # DurableValue(d, namespace, key)
    THEN c[CacheKey(namespace, key)].value
    ELSE NoValue

Fetched(namespace, key, res, twin) ==
    IF ~Watched("fetch") THEN Rest
    ELSE
    [op |-> "fetch", ID |-> 0, Namespace |-> namespace, Key |-> key,
     Value |-> res.config.Value, err |-> res.err, durable |-> res.durable,
     warn |-> res.warn, stale |-> NoValue, errNoCache |-> twin.err, watch |-> last.watch, status |-> 0,
     field |-> ""]

Created(config, res, twin, stale) ==
    IF ~Watched("create") THEN Rest
    ELSE
    [op |-> "create", ID |-> 0, Namespace |-> config.Namespace, Key |-> config.Key,
     Value |-> config.Value, err |-> res.err, durable |-> res.durable, warn |-> res.warn,
     stale |-> stale, errNoCache |-> twin.err, watch |-> last.watch, status |-> 0,
     field |-> ""]

Called(op, id, res, twin) ==
    IF ~Watched(op) THEN Rest
    ELSE
    [op |-> op, ID |-> id, Namespace |-> "", Key |-> "", Value |-> NoValue,
     err |-> res.err, durable |-> res.durable, warn |-> res.warn, stale |-> NoValue,
     errNoCache |-> twin.err, watch |-> last.watch, status |-> 0,
     field |-> ""]

Wrote(op, namespace, key, value, res, changed) ==
    IF lastWrite.op # "untracked" /\ res.err = "none"
    THEN [op |-> op, Namespace |-> namespace, Key |-> key, Value |-> value,
          age |-> 0, warn |-> res.warn, changed |-> changed]
    ELSE lastWrite

GetConfigurationCall(namespace, key, f) ==
    LET res == GetConfiguration(db, cache, redis, namespace, key, f)
        twin == GetConfiguration(dbNoCache, EmptyCache, FALSE, namespace, key, f)
    IN /\ db' = res.db
       /\ cache' = res.cache
       /\ dbNoCache' = twin.db
       /\ last' = Fetched(namespace, key, res, twin)
       /\ UNCHANGED <<redis, lastWrite, noRedis, elsewhere, pending>>

GetSpecificConfigurationCall(namespace, key, f) ==
    LET res == GetSpecificConfiguration(db, cache, redis, namespace, key, f)
        twin == GetSpecificConfiguration(dbNoCache, EmptyCache, FALSE, namespace, key, f)
    IN /\ db' = res.db
       /\ cache' = res.cache
       /\ dbNoCache' = twin.db
       /\ last' = Fetched(namespace, key, res, twin)
       /\ UNCHANGED <<redis, lastWrite, noRedis, elsewhere, pending>>

CreateConfigurationCall(namespace, key, value, f) ==
    LET config == [ID |-> 0, Namespace |-> namespace, Key |-> key, Value |-> value,
                   Description |-> SomeDescription]
        res == CreateConfiguration(db, cache, redis, config, f)
        twin == CreateConfiguration(dbNoCache, EmptyCache, FALSE, config, f)
    IN /\ Len(db) < MaxRows
       /\ db' = res.db
       /\ cache' = res.cache
       /\ dbNoCache' = twin.db
       /\ last' = Created(config, res, twin, StaleValue(db, cache, namespace, key))
       /\ lastWrite' = Wrote("create", namespace, key, value, res, TRUE)
       /\ UNCHANGED <<redis, noRedis, elsewhere, pending>>

(* the caller loads the record by id and passes it back with fields replaced *)
UpdateConfigurationCall(id, namespace, key, value, f) ==
    LET config == [ID |-> id, Namespace |-> namespace, Key |-> key, Value |-> value,
                   Description |-> SomeDescription]
        res == UpdateConfiguration(db, cache, redis, config, f)
        twin == UpdateConfiguration(dbNoCache, EmptyCache, FALSE, config, f)
    IN /\ Live(db, id)
       /\ db' = res.db
       /\ cache' = res.cache
       /\ dbNoCache' = twin.db
       /\ last' = Called("update", id, res, twin)
       /\ lastWrite' = Wrote("update", namespace, key, value, res, db[id].Value # value)
       /\ UNCHANGED <<redis, noRedis, elsewhere, pending>>

DeleteConfigurationCall(id, f) ==
    LET res == DeleteConfiguration(db, cache, redis, id, f)
        twin == DeleteConfiguration(dbNoCache, EmptyCache, FALSE, id, f)
    IN /\ db' = res.db
       /\ cache' = res.cache
       /\ dbNoCache' = twin.db
       /\ last' = Called("delete", id, res, twin)
       /\ lastWrite' = Wrote("delete", res.config.Namespace, res.config.Key, NoValue, res,
                             TRUE)
       /\ UNCHANGED <<redis, noRedis, elsewhere, pending>>

(* ---------------------------- calls of the service ---------------------- *)
(* the second DAO is given the calls made of the DAO only *)
Served(op, id, namespace, key, res, status) ==
    IF last.watch # "service" THEN Rest
    ELSE
    [op |-> op, ID |-> id, Namespace |-> namespace, Key |-> key, Value |-> NoValue,
     err |-> res.err, durable |-> res.durable, warn |-> {}, stale |-> NoValue,
     errNoCache |-> "none", watch |-> last.watch, status |-> status,
     field |-> IF res.err # "ValidationError" THEN ""
               ELSE IF op = "svc.create" THEN DataValidationField(namespace, key)
               ELSE ValidationField(namespace, key)]

ControllerGetSpecificConfigurationCall(namespace, key, f) ==
    LET out == ControllerGetSpecificConfiguration(db, cache, redis, namespace, key, f)
    IN /\ db' = out.res.db
       /\ cache' = out.res.cache
       /\ last' = Served("http.get", 0, namespace, key, out.res, out.status)
       /\ UNCHANGED <<redis, dbNoCache, lastWrite, noRedis, elsewhere, pending>>

ServiceGetConfigurationCall(namespace, key, f) ==
    LET res == ServiceGetConfiguration(db, cache, redis, namespace, key, f)
    IN /\ db' = res.db
       /\ cache' = res.cache
       /\ last' = Served("svc.get", 0, namespace, key, res, 0)
       /\ UNCHANGED <<redis, dbNoCache, lastWrite, noRedis, elsewhere, pending>>

ServiceGetSpecificConfigurationCall(namespace, key, f) ==
    LET res == ServiceGetSpecificConfiguration(db, cache, redis, namespace, key, f)
    IN /\ db' = res.db
       /\ cache' = res.cache
       /\ last' = Served("svc.getspecific", 0, namespace, key, res, 0)
       /\ UNCHANGED <<redis, dbNoCache, lastWrite, noRedis, elsewhere, pending>>

ServiceCreateConfigurationCall(namespace, key, value, f, g) ==
    LET res == ServiceCreateConfiguration(db, cache, redis, namespace, key, value, f, g)
    IN /\ Len(db) < MaxRows
       /\ db' = res.db
       /\ cache' = res.cache
       /\ last' = Served("svc.create", 0, namespace, key, res, 0)
       /\ UNCHANGED <<redis, dbNoCache, lastWrite, noRedis, elsewhere, pending>>

ServiceUpdateConfigurationCall(id, data, findFails, g) ==
    LET res == ServiceUpdateConfiguration(db, cache, redis, id, data, findFails, g)
    IN /\ db' = res.db
       /\ cache' = res.cache
       /\ last' = Served("svc.update", id, "", "", res, 0)
       /\ UNCHANGED <<redis, dbNoCache, lastWrite, noRedis, elsewhere, pending>>

ServiceDeleteConfigurationCall(id, findFails, g) ==
    LET res == ServiceDeleteConfiguration(db, cache, redis, id, findFails, g)
    IN /\ db' = res.db
       /\ cache' = res.cache
       /\ last' = Served("svc.delete", id, "", "", res, 0)
       /\ UNCHANGED <<redis, dbNoCache, lastWrite, noRedis, elsewhere, pending>>

(* time passes; lastWrite.age stops counting once the TTL window is over *)
Tick ==
    /\ cache' = Expire(cache, TickMinutes)
    /\ last' = Rest
    /\ lastWrite' = IF lastWrite.op \in {"none", "untracked"} \/ lastWrite.age >= TTL
                     THEN lastWrite
                     ELSE [lastWrite EXCEPT !.age = @ + TickMinutes]
    /\ UNCHANGED <<db, redis, dbNoCache, noRedis, elsewhere, pending>>

(* pending: the call in progress, with what its first half read or was given *)
NonePending == [op |-> "none", config |-> NilConfig]

(* ---------------------------- calls made in two steps ------------------- *)
(* A call is not atomic: between two of its accesses to the stores other    *)
(* calls run.  One call at a time is followed through its two halves, the   *)
(* calls above running whole in between.                                    *)
Finished(op, config, err, durable) ==
    [op |-> op, ID |-> config.ID, Namespace |-> config.Namespace, Key |-> config.Key,
     Value |-> config.Value, err |-> err, durable |-> durable, warn |-> {},
     stale |-> NoValue, errNoCache |-> "none", watch |-> last.watch, status |-> 0,
     field |-> ""]

(* the expiration of the record a fetch writes back *)
GetConfigurationPopulate_TwiceTTL(c, config) ==
    RedisSet(c, CacheKey(config.Namespace, config.Key), config.Value, 2 * TTL, FALSE).cache

GetConfigurationPopulate(c, config) ==
    RedisSet(c, CacheKey(config.Namespace, config.Key), config.Value, TTL, FALSE).cache

(* GetConfiguration up to its durable query: the cache missed, the row was read *)
BeginGetConfiguration(namespace, key) ==
    LET got == RedisGet(cache, CacheKey(namespace, key), FALSE)
        q == DbFirstByKey(db, namespace, key, FALSE)
    IN /\ pending.op = "none"
       /\ redis
       /\ got.err = "nil"
       /\ q.err = "none"
       /\ pending' = [op |-> "fetch", config |-> q.config]
       /\ last' = Rest
       /\ UNCHANGED <<db, cache, redis, dbNoCache, lastWrite, noRedis, elsewhere>>

(* the rest of it: the row read is written to the cache and returned *)
FinishGetConfiguration ==
    /\ pending.op = "fetch"
    /\ cache' = GetConfigurationPopulate(cache, pending.config)
    /\ last' = Finished("fetch", pending.config, "none", "none")
    /\ pending' = NonePending
    /\ UNCHANGED <<db, redis, dbNoCache, lastWrite, noRedis, elsewhere>>

(* the two callers whose updates overlap *)
Updaters == {1, 2}

(* ... the value written to the cache is read from the row again *)
UpdateConfigurationSet_RowRead(d, c, config) ==
    RedisSet(c, CacheKey(config.Namespace, config.Key), d[config.ID].Value, TTL, FALSE).cache

(* ConfigDAO.UpdateConfiguration after its save: the cache set *)
UpdateConfigurationSet(d, c, config) ==
    RedisSet(c, CacheKey(config.Namespace, config.Key), config.Value, TTL, FALSE).cache

(* ConfigDAO.UpdateConfiguration up to its save, the caller p having loaded *)
(* the record and replaced its value                                        *)
BeginUpdateConfiguration(p, id, value) ==
    LET config == [DbFirstByID(db, id, FALSE).config EXCEPT !.Value = value]
        sav == DbSave(db, config, FALSE, FALSE)
    IN /\ updating[p].op = "none"
       /\ redis
       /\ Live(db, id)
       /\ db' = sav.db
       /\ updating' = [updating EXCEPT ![p] = [op |-> "update", config |-> config]]
       /\ last' = Rest
       /\ UNCHANGED <<cache, redis, dbNoCache, lastWrite, noRedis, pending, env,
                      requestCount, errorCount, goroutine, counted, listing, logs, upserts>>

(* the rest of it *)
FinishUpdateConfiguration(p) ==
    /\ updating[p].op = "update"
    /\ cache' = UpdateConfigurationSet(db, cache, updating[p].config)
    /\ updating' = [updating EXCEPT ![p] = NonePending]
    /\ last' = Finished("update", updating[p].config, "none", "none")
    /\ UNCHANGED <<db, redis, dbNoCache, lastWrite, noRedis, pending, env,
                   requestCount, errorCount, goroutine, counted, listing, logs, upserts>>

(* ConfigService.CreateConfiguration up to its duplicate check, which passed *)
BeginServiceCreateConfiguration(namespace, key, value) ==
    LET existing == GetSpecificConfiguration(db, cache, redis, namespace, key, NoFault)
    IN /\ pending.op = "none"
       /\ existing.err # "none"
       /\ pending' = [op |-> "svc.create",
                      config |-> [ID |-> 0, Namespace |-> namespace, Key |-> key,
                                  Value |-> value, Description |-> SomeDescription]]
       /\ last' = Rest
       /\ UNCHANGED <<db, cache, redis, dbNoCache, lastWrite, noRedis, elsewhere>>

(* the rest of it: the DAO's create *)
FinishServiceCreateConfiguration ==
    LET res == CreateConfiguration(db, cache, redis, pending.config, NoFault)
    IN /\ pending.op = "svc.create"
       /\ Len(db) < MaxRows
       /\ db' = res.db
       /\ cache' = res.cache
       /\ last' = Finished("svc.create", pending.config, res.err, res.durable)
       /\ pending' = NonePending
       /\ UNCHANGED <<redis, dbNoCache, lastWrite, noRedis, elsewhere>>

(* ConfigService.UpdateConfiguration up to the replacement of the fields of *)
(* the record it loaded                                                     *)
BeginServiceUpdateConfiguration(id, data) ==
    LET loaded == ServiceLoad(db, cache, id, FALSE)
    IN /\ pending.op = "none"
       /\ loaded.err = "none"
       /\ pending' = [op |-> "svc.update", config |-> Replaced(loaded.config, data)]
       /\ last' = Rest
       /\ UNCHANGED <<db, cache, redis, dbNoCache, lastWrite, noRedis, elsewhere>>

(* the rest of it: the DAO's update; upsert is what db.Save does when the  *)
(* row is no longer live                                                    *)
FinishServiceUpdateConfiguration(upsert) ==
    LET res == UpdateConfiguration(db, cache, redis, pending.config,
                                   [NoFault EXCEPT !.upsert = upsert])
    IN /\ pending.op = "svc.update"
       /\ upsert => ~Live(db, pending.config.ID)
       /\ db' = res.db
       /\ cache' = res.cache
       /\ last' = Finished("svc.update", pending.config, res.err, res.durable)
       /\ pending' = NonePending
       /\ UNCHANGED <<redis, dbNoCache, lastWrite, noRedis, elsewhere>>

(* ConfigService.DeleteConfiguration up to its existence check, which passed *)
BeginServiceDeleteConfiguration(id) ==
    LET loaded == ServiceLoad(db, cache, id, FALSE)
    IN /\ pending.op = "none"
       /\ loaded.err = "none"
       /\ pending' = [op |-> "svc.delete", config |-> [NilConfig EXCEPT !.ID = id]]
       /\ last' = Rest
       /\ UNCHANGED <<db, cache, redis, dbNoCache, lastWrite, noRedis, elsewhere>>

(* the rest of it: the DAO's delete *)
FinishServiceDeleteConfiguration ==
    LET res == DeleteConfiguration(db, cache, redis, pending.config.ID, NoFault)
    IN /\ pending.op = "svc.delete"
       /\ db' = res.db
       /\ cache' = res.cache
       /\ last' = Finished("svc.delete", pending.config, res.err, res.durable)
       /\ pending' = NonePending
       /\ UNCHANGED <<redis, dbNoCache, lastWrite, noRedis, elsewhere>>

(* ---------------------------- listing ----------------------------------- *)
(* A Go int is 64 bits wide here.  One is held as its two's complement bit  *)
(* pattern in four limbs of 16 bits, the lowest first.                      *)
Limb == 65536
HalfLimb == 32768

(* the int of a small number that is not negative *)
IntOf(n) == <<n % Limb, (n \div Limb) % Limb, 0, 0>>
MaxInt == <<Limb - 1, Limb - 1, Limb - 1, HalfLimb - 1>>
MinusOne == <<Limb - 1, Limb - 1, Limb - 1, Limb - 1>>

IsNegative(x) == x[4] >= HalfLimb
LessThanOne(x) == IsNegative(x) \/ x = IntOf(0)

(* x - 1 *)
Decrement(x) ==
    LET b1 == IF x[1] = 0 THEN 1 ELSE 0
        b2 == IF b1 = 1 /\ x[2] = 0 THEN 1 ELSE 0
        b3 == IF b2 = 1 /\ x[3] = 0 THEN 1 ELSE 0
    IN <<(x[1] + Limb - 1) % Limb, (x[2] + Limb - b1) % Limb,
         (x[3] + Limb - b2) % Limb, (x[4] + Limb - b3) % Limb>>

(* x * k for 0 <= k <= 100, the carry out of the highest limb dropped *)
Times(x, k) ==
    LET p1 == x[1] * k
        p2 == x[2] * k + (p1 \div Limb)
        p3 == x[3] * k + (p2 \div Limb)
        p4 == x[4] * k + (p3 \div Limb)
    IN <<p1 % Limb, p2 % Limb, p3 % Limb, p4 % Limb>>

(* the pages and page sizes asked for *)
Pages == {MinusOne, IntOf(0), IntOf(1), IntOf(2), IntOf(3), IntOf(70000), MaxInt}
PageSizes == {-1, 0, 1, 2, 3, 20, 100, 101}

(* ConfigDAO.GetConfigurations: the offset of its query *)
Offset(page, pageSize) == Times(Decrement(page), pageSize)

(* ConfigService.GetConfigurations: its pagination and the offset of the    *)
(* DAO's query, total being the DAO's count                                 *)
GetConfigurations(page, pageSize, total) ==
    LET p == IF LessThanOne(page) THEN IntOf(1) ELSE page
        ps == IF pageSize < 1 \/ pageSize > 100 THEN 20 ELSE pageSize
    IN [page |-> p, page_size |-> ps, total |-> total,
        total_pages |-> (total + ps - 1) \div ps, offset |-> Offset(p, ps)]

NoListing == [called |-> FALSE, page |-> IntOf(0), pageSize |-> 0, response |-> <<>>]

GetConfigurationsCall(page, pageSize, total) ==
    /\ listing' = [called |-> TRUE, page |-> page, pageSize |-> pageSize,
                   response |-> GetConfigurations(page, pageSize, total)]
    /\ UNCHANGED <<configuration, env, requestCount, errorCount, goroutine, counted,
                   logs, upserts, updating>>

(* ---------------------------- logs -------------------------------------- *)
(* models.Log: the primary key of a row is its place in logs; client_id and *)
(* file_name carry plain indexes, none of them unique                       *)
ClientIDs == {"c1"}
FileNames == {"a.log", "b.log"}
LineNos == {0, 10, 20}
Uploaders == {1, 2}

NoUpsert == [op |-> "none", log |-> <<>>, found |-> 0]

(* Where("client_id = ? AND file_name = ?").FirstOrInit: the primary key of *)
(* the first matching row, 0 when RowsAffected is 0                         *)
FirstOrInit(l, clientID, fileName) ==
    LET match == {i \in 1..Len(l) : l[i].ClientID = clientID /\ l[i].FileName = fileName}
    IN IF match = {} THEN 0 ELSE MinOf(match)

(* Model(&existingLog).Updates(log): the fields of log that are not zero *)
Updates(row, log) ==
    [row EXCEPT !.ClientID = log.ClientID, !.FileName = log.FileName,
                !.LastLineNo = IF log.LastLineNo # 0 THEN log.LastLineNo ELSE @]

(* LogDAO.Upsert up to its query *)
BeginUpsert(p, log) ==
    /\ upserts[p].op = "none"
    /\ upserts' = [upserts EXCEPT ![p] =
                      [op |-> "upsert", log |-> log,
                       found |-> FirstOrInit(logs, log.ClientID, log.FileName)]]
    /\ UNCHANGED <<configuration, env, requestCount, errorCount, goroutine, counted,
                   listing, logs, updating>>

(* the rest of it: the row found is updated, or a row is created *)
FinishUpsert(p) ==
    /\ upserts[p].op = "upsert"
    /\ IF upserts[p].found > 0
       THEN logs' = [logs EXCEPT ![upserts[p].found] = Updates(@, upserts[p].log)]
       ELSE Len(logs) < MaxLogs /\ logs' = Append(logs, upserts[p].log)
    /\ upserts' = [upserts EXCEPT ![p] = NoUpsert]
    /\ UNCHANGED <<configuration, env, requestCount, errorCount, goroutine, counted,
                   listing, updating>>

(* ---------------------------- request counters -------------------------- *)
Goroutines == 1..MaxGoroutines
StatusCodes == {200, 404, 500}

(* ... a load of the count and a store of the sum, as two accesses *)
AddUint64_LoadThenStore(count, seen, delta) == seen + delta

(* atomic.AddUint64(&count, delta): the sum is counted of the count at the     *)
(* instant of the add, not of what the goroutine saw before; the counts     *)
(* stay below MaxCalls, far from the 2^64 where a uint64 wraps              *)
AddUint64(count, seen, delta) == count + delta

(* atomic.LoadUint64 *)
GetRequestCount == requestCount
GetErrorCount == errorCount

Resting == [pc |-> "idle", seen |-> 0]

Started == counted.request + counted.error
           + Cardinality({g \in Goroutines : goroutine[g].pc # "idle"})

(* a goroutine enters internal.IncrementRequestCount *)
IncrementRequestCountCall(g) ==
    /\ goroutine[g].pc = "idle"
    /\ Started < MaxCalls
    /\ goroutine' = [goroutine EXCEPT ![g] = [pc |-> "request", seen |-> GetRequestCount]]
    /\ UNCHANGED <<configuration, env, listing, logs, upserts, updating, requestCount, errorCount, counted>>

(* utils.IncrementRequestCount *)
IncrementRequestCount(g) ==
    /\ goroutine[g].pc = "request"
    /\ requestCount' = AddUint64(requestCount, goroutine[g].seen, 1)
    /\ counted' = [counted EXCEPT !.request = @ + 1]
    /\ goroutine' = [goroutine EXCEPT ![g] = Resting]
    /\ UNCHANGED <<configuration, env, listing, logs, upserts, updating, errorCount>>

(* a goroutine enters internal.RecordHTTPRequest: an error is counted for a *)
(* status of 400 and above                                                  *)
RecordHTTPRequest(g, statusCode) ==
    /\ goroutine[g].pc = "idle"
    /\ Started < MaxCalls
    /\ goroutine' = IF statusCode >= 400
                    THEN [goroutine EXCEPT ![g] = [pc |-> "error", seen |-> GetErrorCount]]
                    ELSE goroutine
    /\ UNCHANGED <<configuration, env, listing, logs, upserts, updating, requestCount, errorCount, counted>>

(* utils.IncrementErrorCount *)
IncrementErrorCount(g) ==
    /\ goroutine[g].pc = "error"
    /\ errorCount' = AddUint64(errorCount, goroutine[g].seen, 1)
    /\ counted' = [counted EXCEPT !.error = @ + 1]
    /\ goroutine' = [goroutine EXCEPT ![g] = Resting]
    /\ UNCHANGED <<configuration, env, listing, logs, upserts, updating, requestCount>>

(* the counters of a process that has served no request *)
StartElsewhere ==
    /\ requestCount = 0
    /\ errorCount = 0
    /\ goroutine = [g \in Goroutines |-> Resting]
    /\ counted = [request |-> 0, error |-> 0]
    /\ listing = NoListing
    /\ logs = <<>>
    /\ upserts = [p \in Uploaders |-> NoUpsert]
    /\ updating = [p \in Updaters |-> NonePending]

(* internal.InitRedis: a client when Redis answers the ping, an error when not *)
InitRedis(reachable) ==
    IF reachable THEN [client |-> TRUE, err |-> "none"] ELSE [client |-> FALSE, err |-> "err"]

(* services.InitializeApp: whether the ConfigDAO it builds has a cache; the *)
(* --no-redis flag is among its inputs and is not read                      *)
InitializeApp(flag, reachable) ==
    LET made == InitRedis(reachable)
    IN IF made.err # "none" THEN FALSE ELSE made.client

StartWith(watch, write, flag) ==
    /\ db = <<>>
    /\ cache = EmptyCache
    /\ redis \in {InitializeApp(flag, reachable) : reachable \in BOOLEAN}
    /\ dbNoCache = <<>>
    /\ last = [Idle EXCEPT !.watch = watch]
    /\ lastWrite = write
    /\ noRedis = flag
    /\ pending = NonePending
    /\ env = [db |-> TRUE, redis |-> redis]
    /\ StartElsewhere

Start(watch, write) == StartWith(watch, write, FALSE)

(* the program after construction, each fetch and its result recorded *)
Init == Start("fetch", Untracked)

(* the same program, each write and its result recorded *)
InitWrites == Start("write", Untracked)

(* the same program, the latest successful write recorded *)
InitHistory == Start("none", NoWrite)

(* the same program, every call's result recorded *)
InitReliable == Start("all", Untracked)

Next ==
    \/ \E namespace \in Namespaces, key \in Keys, f \in GetFaults(redis) :
          GetConfigurationCall(namespace, key, f)
    \/ \E namespace \in Namespaces, key \in Keys, f \in GetFaults(redis) :
          GetSpecificConfigurationCall(namespace, key, f)
    \/ \E namespace \in Namespaces, key \in Keys, value \in Values, f \in CreateFaults(redis) :
          CreateConfigurationCall(namespace, key, value, f)
    \/ \E id \in 1..MaxRows, namespace \in Namespaces, key \in Keys, value \in Values,
          f \in UpdateFaults(redis) :
          UpdateConfigurationCall(id, namespace, key, value, f)
    \/ \E id \in 1..MaxRows, f \in DeleteFaults(redis) : DeleteConfigurationCall(id, f)
    \/ Tick

Spec == Init /\ [][Next]_vars

SpecWrites == InitWrites /\ [][Next]_vars

SpecHistory == InitHistory /\ [][Next]_vars

(* the same calls when neither store fails *)
NextReliable ==
    \/ \E namespace \in Namespaces, key \in Keys :
          GetConfigurationCall(namespace, key, NoFault)
    \/ \E namespace \in Namespaces, key \in Keys :
          GetSpecificConfigurationCall(namespace, key, NoFault)
    \/ \E namespace \in Namespaces, key \in Keys, value \in Values :
          CreateConfigurationCall(namespace, key, value, NoFault)
    \/ \E id \in 1..MaxRows, namespace \in Namespaces, key \in Keys, value \in Values :
          UpdateConfigurationCall(id, namespace, key, value, NoFault)
    \/ \E id \in 1..MaxRows : DeleteConfigurationCall(id, NoFault)
    \/ Tick

SpecReliable == InitReliable /\ [][NextReliable]_vars

(* the program built with no cache backend, every call's result recorded *)
InitNoRedis == Start("all", Untracked) /\ ~redis

SpecNoRedis == InitNoRedis /\ [][Next]_vars

(* the program started with --no-redis, no call recorded *)
InitNoRedisFlag == StartWith("none", Untracked, TRUE)

SpecNoRedisFlag == InitNoRedisFlag /\ [][Next]_vars

(* the same program called through ConfigService and ConfigController *)
InitService == Start("service", Untracked)

(* the failures the second half of a service call can meet: none when its *)
(* first half ends the call                                                *)
AfterCheck(namespace, key, f) ==
    IF GetSpecificConfiguration(db, cache, redis, namespace, key, f).err = "none"
    THEN {NoFault} ELSE CreateFaults(redis)

AfterLoad(id, findFails, G) ==
    IF ServiceLoad(db, cache, id, findFails).err # "none" THEN {NoFault} ELSE G

NextService ==
    \/ \E namespace \in Namespaces, key \in Keys, f \in GetFaults(redis) :
          ControllerGetSpecificConfigurationCall(namespace, key, f)
    \/ \E namespace \in Namespaces, key \in Keys, value \in Values, f \in GetFaults(redis) :
          \E g \in AfterCheck(namespace, key, f) :
             ServiceCreateConfigurationCall(namespace, key, value, f, g)
    \/ \E id \in 1..MaxRows, data \in UpdateData, findFails \in BOOLEAN :
          \E g \in AfterLoad(id, findFails, UpdateFaults(redis)) :
             ServiceUpdateConfigurationCall(id, data, findFails, g)
    \/ \E id \in 1..MaxRows, findFails \in BOOLEAN :
          \E g \in AfterLoad(id, findFails, DeleteFaults(redis)) :
             ServiceDeleteConfigurationCall(id, findFails, g)

SpecService == InitService /\ [][NextService]_vars

(* ---------------------------- start of the process --------------------- *)
(* internal.InitDB: a connection when the database answers, an error when not *)
InitDB(up) ==
    IF up THEN [db |-> TRUE, err |-> "none"] ELSE [db |-> FALSE, err |-> "err"]

(* ... a Redis that does not answer fails the start as well *)
InitializeAppContext_RedisRequired(flag, up, reachable) ==
    IF InitDB(up).err # "none" \/ InitRedis(reachable).err # "none"
    THEN [ctx |-> FALSE, err |-> "failed to initialize", redis |-> FALSE]
    ELSE [ctx |-> TRUE, err |-> "none", redis |-> TRUE]

(* services.InitializeApp: the context it returns, its error, and whether the *)
(* ConfigDAO of the context has a cache                                      *)
InitializeAppContext(flag, up, reachable) ==
    IF InitDB(up).err # "none"
    THEN [ctx |-> FALSE, err |-> "failed to initialize database", redis |-> FALSE]
    ELSE [ctx |-> TRUE, err |-> "none", redis |-> InitializeApp(flag, reachable)]

(* main: InitializeApp is called; the process exits when it returns an error *)
InitializeAppCall ==
    LET out == InitializeAppContext(noRedis, env.db, env.redis)
    IN /\ pending.op = "init"
       /\ redis' = out.redis
       /\ pending' = IF out.ctx THEN NonePending ELSE [NonePending EXCEPT !.op = "exit"]
       /\ last' = [Rest EXCEPT !.op = "init", !.err = out.err]
       /\ UNCHANGED <<db, cache, dbNoCache, lastWrite, noRedis, elsewhere>>

(* the process before InitializeApp, in every environment *)
InitBoot ==
    /\ db = <<>>
    /\ cache = EmptyCache
    /\ redis = FALSE
    /\ dbNoCache = <<>>
    /\ last = [Idle EXCEPT !.watch = "none"]
    /\ lastWrite = Untracked
    /\ noRedis = FALSE
    /\ pending = [NonePending EXCEPT !.op = "init"]
    /\ env \in [db : BOOLEAN, redis : BOOLEAN]
    /\ StartElsewhere

(* the calls are served once the context is built *)
NextBoot ==
    \/ InitializeAppCall
    \/ pending.op = "none" /\ NextReliable

SpecBoot == InitBoot /\ [][NextBoot]_vars

(* the request goroutines counting requests and errors *)
InitCounters == Start("none", Untracked)

NextCounters ==
    \/ \E g \in Goroutines : IncrementRequestCountCall(g)
    \/ \E g \in Goroutines : IncrementRequestCount(g)
    \/ \E g \in Goroutines, statusCode \in StatusCodes : RecordHTTPRequest(g, statusCode)
    \/ \E g \in Goroutines : IncrementErrorCount(g)

SpecCounters == InitCounters /\ [][NextCounters]_vars

(* the service called one call after the other, neither store failing *)
InitSequential == Start("service", Untracked)

NextSequential ==
    \/ \E namespace \in Namespaces, key \in Keys :
          ServiceGetConfigurationCall(namespace, key, NoFault)
    \/ \E namespace \in Namespaces, key \in Keys, value \in Values :
          ServiceCreateConfigurationCall(namespace, key, value, NoFault, NoFault)
    \/ \E id \in 1..MaxRows, data \in UpdateData :
          ServiceUpdateConfigurationCall(id, data, FALSE, NoFault)
    \/ \E id \in 1..MaxRows : ServiceDeleteConfigurationCall(id, FALSE, NoFault)

SpecSequential == InitSequential /\ [][NextSequential]_vars

(* updates of the DAO made in two steps by two callers, entries created in *)
(* between; neither store fails                                             *)
InitUpdateRace == Start("halves", Untracked) /\ redis

NextUpdateRace ==
    \/ \E namespace \in Namespaces, key \in Keys, value \in Values :
          CreateConfigurationCall(namespace, key, value, NoFault)
    \/ \E p \in Updaters, id \in 1..MaxRows, value \in Values :
          BeginUpdateConfiguration(p, id, value)
    \/ \E p \in Updaters : FinishUpdateConfiguration(p)

SpecUpdateRace == InitUpdateRace /\ [][NextUpdateRace]_vars

(* logs uploaded by two callers, each Upsert made in two steps *)
InitLogs == Start("none", Untracked)

NextLogs ==
    \/ \E p \in Uploaders, clientID \in ClientIDs, fileName \in FileNames,
          lineNo \in LineNos :
          BeginUpsert(p, [ClientID |-> clientID, FileName |-> fileName,
                          LastLineNo |-> lineNo])
    \/ \E p \in Uploaders : FinishUpsert(p)

SpecLogs == InitLogs /\ [][NextLogs]_vars

(* the same with time passing, no update changing an entry's namespace or key *)
KeptKey == {data \in UpdateData : data.namespace = Absent /\ data.key = Absent}

NextCoherent ==
    \/ \E namespace \in Namespaces, key \in Keys :
          ServiceGetConfigurationCall(namespace, key, NoFault)
    \/ \E namespace \in Namespaces, key \in Keys :
          ServiceGetSpecificConfigurationCall(namespace, key, NoFault)
    \/ \E namespace \in Namespaces, key \in Keys, value \in Values :
          ServiceCreateConfigurationCall(namespace, key, value, NoFault, NoFault)
    \/ \E id \in 1..MaxRows, data \in KeptKey :
          ServiceUpdateConfigurationCall(id, data, FALSE, NoFault)
    \/ \E id \in 1..MaxRows : ServiceDeleteConfigurationCall(id, FALSE, NoFault)
    \/ Tick

SpecCoherent == InitSequential /\ [][NextCoherent]_vars

(* entries whose namespace or key holds the ':' that the cache key is built *)
(* with; validation refuses the empty string only; neither store fails      *)
DelimitedNamespaces == {"app", "app:db"}
DelimitedKeys == {"db:port", "port"}

InitDelimited == Start("fetch", Untracked) /\ redis

NextDelimited ==
    \/ \E namespace \in DelimitedNamespaces, key \in DelimitedKeys, value \in Values :
          CreateConfigurationCall(namespace, key, value, NoFault)
    \/ \E namespace \in DelimitedNamespaces, key \in DelimitedKeys :
          GetConfigurationCall(namespace, key, NoFault)

SpecDelimited == InitDelimited /\ [][NextDelimited]_vars

(* the configurations listed by page *)
InitListing == Start("none", Untracked)

NextListing ==
    \E page \in Pages, pageSize \in PageSizes, total \in 0..MaxTotal :
       GetConfigurationsCall(page, pageSize, total)

SpecListing == InitListing /\ [][NextListing]_vars

(* the service called with arguments that validation refuses as well: the  *)
(* empty string, and for create a field missing or not a string            *)
InitValidation == Start("service", Untracked)

NextValidation ==
    \/ \E namespace \in Namespaces \cup {""}, key \in Keys \cup {""}, f \in GetFaults(redis) :
          ServiceGetConfigurationCall(namespace, key, f)
    \/ \E namespace \in Namespaces \cup {""}, key \in Keys \cup {""}, f \in GetFaults(redis) :
          ServiceGetSpecificConfigurationCall(namespace, key, f)
    \/ \E namespace \in Namespaces \cup {"", Absent, NotAString},
          key \in Keys \cup {"", Absent, NotAString}, value \in Values,
          f \in GetFaults(redis) :
          ServiceCreateConfigurationCall(namespace, key, value, f, NoFault)

SpecValidation == InitValidation /\ [][NextValidation]_vars

(* fetches made in two steps, the DAO's calls and time in between; neither  *)
(* store fails; fetches recorded                                            *)
InitFetchRace == Start("fetch", Untracked) /\ redis

NextFetchRace ==
    \/ \E namespace \in Namespaces, key \in Keys : BeginGetConfiguration(namespace, key)
    \/ FinishGetConfiguration
    \/ NextReliable

SpecFetchRace == InitFetchRace /\ [][NextFetchRace]_vars

(* calls of the service made in two steps, whole calls of the service in    *)
(* between; neither store fails; the calls made in two steps recorded       *)
InitServiceRace == Start("halves", Untracked)

NextServiceRace ==
    \/ \E namespace \in Namespaces, key \in Keys, value \in Values :
          BeginServiceCreateConfiguration(namespace, key, value)
    \/ FinishServiceCreateConfiguration
    \/ \E id \in 1..MaxRows, data \in UpdateData : BeginServiceUpdateConfiguration(id, data)
    \/ \E upsert \in BOOLEAN : FinishServiceUpdateConfiguration(upsert)
    \/ \E id \in 1..MaxRows : BeginServiceDeleteConfiguration(id)
    \/ FinishServiceDeleteConfiguration
    \/ \E namespace \in Namespaces, key \in Keys, value \in Values :
          ServiceCreateConfigurationCall(namespace, key, value, NoFault, NoFault)
    \/ \E id \in 1..MaxRows, data \in UpdateData :
          ServiceUpdateConfigurationCall(id, data, FALSE, NoFault)
    \/ \E id \in 1..MaxRows : ServiceDeleteConfigurationCall(id, FALSE, NoFault)

SpecServiceRace == InitServiceRace /\ [][NextServiceRace]_vars

TypeOK ==
    /\ Len(db) <= MaxRows
    /\ redis \in BOOLEAN
    /\ \A k \in DOMAIN cache : cache[k].age + cache[k].ttl = TTL

(* ---------------------------- properties ------------------------------- *)
CK(call) == CacheKey(call.Namespace, call.Key)

(* C1, as stated: a fetch of a (namespace, key) that has no cache record    *)
(* and a live durable row (the durable query answering) returns the durable *)
(* value, and on return the configured cache holds that value under the     *)
(* key's cache key.  Fails: the cache set can fail, which is only logged.   *)
C1_FetchPopulatesAlways ==
    [][(/\ last'.op = "fetch"
        /\ redis
        /\ ~Held(cache, CK(last'))
        /\ Matching(db, last'.Namespace, last'.Key) # {}
        /\ last'.durable # "dberr")
       => (/\ last'.err = "none"
           /\ last'.Value = DurableValue(db, last'.Namespace, last'.Key)
           /\ Held(cache', CK(last'))
           /\ cache'[CK(last')].value = last'.Value)]_vars

(* C1, amended: such a fetch returns the durable value, and when a cache is *)
(* configured and the cache set does not fail the cache then holds that     *)
(* value under the key's cache key with the full time to live.              *)
C1_FetchReturnsDurableAndPopulates ==
    [][(/\ last'.op = "fetch"
        /\ ~Held(cache, CK(last'))
        /\ Matching(db, last'.Namespace, last'.Key) # {}
        /\ last'.durable # "dberr")
       => (/\ last'.err = "none"
           /\ last'.Value = DurableValue(db, last'.Namespace, last'.Key)
           /\ (redis /\ "set" \notin last'.warn
                 => /\ Held(cache', CK(last'))
                    /\ cache'[CK(last')] = [value |-> last'.Value, age |-> 0, ttl |-> TTL]))]_vars

(* a fetch missed the cache, read the row and wrote it back *)
C1_Witness ==
    /\ last.op = "fetch"
    /\ redis
    /\ last.durable = "none"
    /\ last.warn = {}
    /\ Held(cache, CK(last))
    /\ cache[CK(last)].value = last.Value
    /\ last.Value = DurableValue(db, last.Namespace, last.Key)

Fetches(namespace, key, g) ==
    {GetConfiguration(db, cache, redis, namespace, key, g),
     GetSpecificConfiguration(db, cache, redis, namespace, key, g)}

(* C3, as stated: when the cache holds a stale value s for (ns, k) and      *)
(* create(ns, k, v) with v # s has inserted its row, the cache record of    *)
(* the key is gone and the fetch that follows does not return s.  Fails:    *)
(* the cache delete can fail, which is only logged.                         *)
C3_CreateInvalidatesAlways ==
    (/\ last.op = "create"
     /\ last.err = "none"
     /\ last.stale \notin {NoValue, last.Value})
    => /\ ~Held(cache, CK(last))
       /\ \A g \in GetFaults(redis) : \A r \in Fetches(last.Namespace, last.Key, g) :
             r.config.Value # last.stale

(* C3, amended: the same, provided the create's cache delete did not fail.  *)
C3_CreateInvalidates ==
    (/\ last.op = "create"
     /\ last.err = "none"
     /\ "del" \notin last.warn
     /\ last.stale \notin {NoValue, last.Value})
    => /\ ~Held(cache, CK(last))
       /\ \A g \in GetFaults(redis) : \A r \in Fetches(last.Namespace, last.Key, g) :
             r.config.Value # last.stale

(* a create found a stale value cached for its key and removed the record *)
C3_Witness ==
    /\ last.op = "create"
    /\ last.err = "none"
    /\ last.warn = {}
    /\ last.stale \notin {NoValue, last.Value}
    /\ ~Held(cache, CK(last))
    /\ \A r \in Fetches(last.Namespace, last.Key, NoFault) :
          r.err = "none" /\ r.config.Value # last.stale

C6_NoCacheEquivalence ==
    /\ dbNoCache = db
    /\ (last.err = "none") = (last.errNoCache = "none")

(* C7: a fetch is served from the cache only by a record written less than  *)
(* TTL minutes before, whose value it returns, and the record's age and     *)
(* remaining time to live still add up to TTL after the hit; no record      *)
(* outlives TTL minutes.                                                    *)
C7_ExpiryBound ==
    /\ \A k \in DOMAIN cache :
          cache[k].ttl > 0 /\ cache[k].age < TTL /\ cache[k].age + cache[k].ttl = TTL
    /\ (last.op = "fetch" /\ last.durable = "skipped")
       => /\ Held(cache, CK(last))
          /\ cache[CK(last)].value = last.Value

(* a fetch was served by a record written minutes before *)
C7_Witness ==
    /\ last.op = "fetch"
    /\ last.durable = "skipped"
    /\ Held(cache, CK(last))
    /\ cache[CK(last)].age > 0
    /\ cache[CK(last)].ttl < TTL

C9_DurableFirst ==
    [][(last'.op \in Writes /\ last'.durable # "none")
       => /\ last'.err = last'.durable
          /\ last'.err # "none"
          /\ db' = db
          /\ cache' = cache]_vars

(* a create failed in the durable store while its key was cached *)
C9_Witness ==
    /\ last.op = "create"
    /\ last.err = "dberr"
    /\ Held(cache, CK(last))

(* C10: a delete of an id with no live row returns the lookup's error and   *)
(* leaves the durable rows and the cache unchanged.                         *)
C10_DeleteLookupFailure ==
    [][(last'.op = "delete" /\ ~Live(db, last'.ID))
       => /\ last'.err \in {"notfound", "dberr"}
          /\ last'.err = last'.durable
          /\ db' = db
          /\ cache' = cache]_vars

(* a delete of an already deleted id returned not-found, the cache in use *)
C10_Witness ==
    /\ last.op = "delete"
    /\ last.err = "notfound"
    /\ last.ID \in 1..Len(db)
    /\ db[last.ID].Deleted
    /\ cache # EmptyCache

(* C11: a fetch of a (namespace, key) with no cache record and no live row  *)
(* returns not-found (the store's error when the durable query fails) and   *)
(* leaves the cache and the durable rows as they were.                      *)
C11_NotFoundNoCacheWrite ==
    [][(/\ last'.op = "fetch"
        /\ ~Held(cache, CK(last'))
        /\ Matching(db, last'.Namespace, last'.Key) = {})
       => /\ last'.err = IF last'.durable = "dberr" THEN "dberr" ELSE "notfound"
          /\ last'.durable # "skipped"
          /\ last'.Value = NoValue
          /\ cache' = cache
          /\ db' = db]_vars

(* a fetch found nothing for its key while the cache held another key *)
C11_Witness ==
    /\ last.op = "fetch"
    /\ last.err = "notfound"
    /\ redis
    /\ cache # EmptyCache
    /\ ~Held(cache, CK(last))
    /\ Matching(db, last.Namespace, last.Key) = {}

(* C12, as stated: a GET of a (namespace, key) for which the durable lookup *)
(* finds no row is answered 404.  Fails in the code: the service passes on  *)
(* gorm.ErrRecordNotFound as it is, and handleError answers 500 to every    *)
(* error that is not one of the service's typed errors.                     *)
C12_MissingEntryIs404 ==
    (last.op = "http.get" /\ last.durable = "notfound") => last.status = 404

(* C13, as stated: with a cache configured, after a create(ns, k, v) that   *)
(* inserted the only live row of (ns, k), a fetch of (ns, k) whose durable  *)
(* query does not fail returns v read from the durable store and the cache  *)
(* then holds v under "config:" + ns + ":" + k.  Fails: the fetch's cache   *)
(* set can fail, and so can the create's cache delete, after which a record *)
(* left in the cache is served.                                             *)
C13_CreateThenFetchAlways ==
    (/\ last.op = "create"
     /\ last.err = "none"
     /\ redis
     /\ Cardinality(Matching(db, last.Namespace, last.Key)) = 1)
    => \A g \in GetFaults(redis) : \A r \in Fetches(last.Namespace, last.Key, g) :
          ~g.find =>
             /\ r.err = "none"
             /\ r.durable = "none"
             /\ r.config.Value = last.Value
             /\ Held(r.cache, "config:" \o last.Namespace \o ":" \o last.Key)
             /\ r.cache["config:" \o last.Namespace \o ":" \o last.Key].value = last.Value

(* C13, amended: the same, provided the create's cache delete did not fail; *)
(* the cache holds v under that key when a cache is configured and the      *)
(* fetch's cache set does not fail.                                         *)
C13_CreateThenFetch ==
    (/\ last.op = "create"
     /\ last.err = "none"
     /\ "del" \notin last.warn
     /\ Cardinality(Matching(db, last.Namespace, last.Key)) = 1)
    => \A g \in GetFaults(redis) : \A r \in Fetches(last.Namespace, last.Key, g) :
          ~g.find =>
             /\ r.err = "none"
             /\ r.durable = "none"
             /\ r.config.Value = last.Value
             /\ (redis /\ ~g.set)
                => /\ DOMAIN r.cache = DOMAIN cache
                                       \cup {"config:" \o last.Namespace \o ":" \o last.Key}
                   /\ r.cache["config:" \o last.Namespace \o ":" \o last.Key]
                         = [value |-> last.Value, age |-> 0, ttl |-> TTL]

(* a create removed a cached record of its key and the fetch after it reads *)
(* the new row and caches it                                                *)
C13_Witness ==
    /\ last.op = "create"
    /\ last.err = "none"
    /\ last.warn = {}
    /\ last.stale # NoValue
    /\ redis
    /\ Cardinality(Matching(db, last.Namespace, last.Key)) = 1
    /\ \A r \in Fetches(last.Namespace, last.Key, NoFault) :
          /\ r.durable = "none"
          /\ r.config.Value = last.Value
          /\ Held(r.cache, "config:" \o last.Namespace \o ":" \o last.Key)

(* C14: a fetch of a (namespace, key) that has a cache record, the cache    *)
(* get not failing, returns a record made of the arguments and the cached   *)
(* value with a zero id and an empty description; it does not read the      *)
(* durable store (a failing durable query changes nothing) and leaves rows  *)
(* and cache as they were.                                                  *)
C14_CacheHitRecord ==
    \A namespace \in Namespaces, key \in Keys :
       (redis /\ Held(cache, CacheKey(namespace, key)))
       => \A g \in GetFaults(redis) : \A r \in Fetches(namespace, key, g) :
             ~g.get =>
                /\ r.err = "none"
                /\ r.durable = "skipped"
                /\ r.config = [ID |-> 0, Namespace |-> namespace, Key |-> key,
                               Value |-> cache[CacheKey(namespace, key)].value,
                               Description |-> ""]
                /\ r.db = db
                /\ r.cache = cache

(* a fetch was served from the cache while a live row with an id and a      *)
(* description exists for its key                                           *)
C14_Witness ==
    /\ last.op = "fetch"
    /\ last.durable = "skipped"
    /\ Held(cache, CK(last))
    /\ Matching(db, last.Namespace, last.Key) # {}
    /\ \A i \in Matching(db, last.Namespace, last.Key) : db[i].Description # ""
    /\ \A r \in Fetches(last.Namespace, last.Key, NoFault) :
          r.config.ID = 0 /\ r.config.Description = "" /\ r.config.Value = last.Value

(* C15: a ConfigDAO built with a nil cache makes no cache operation: every  *)
(* call leaves the cache empty and logs no cache failure; its error is the  *)
(* error of its durable step, which it always makes; a fetch returns what   *)
(* the durable query answers and a failed call changes no row.              *)
C15_NilCacheDegenerate ==
    [][~redis =>
         /\ cache = EmptyCache /\ cache' = EmptyCache
         /\ last'.op \in Writes \cup {"fetch"} =>
               /\ last'.warn = {}
               /\ last'.durable # "skipped"
               /\ last'.err = last'.durable
               /\ last'.err # "none" => db' = db
               /\ last'.op = "fetch" =>
                     /\ db' = db
                     /\ last'.err \in {"none", "dberr"} =>
                           last'.Value = IF last'.err = "none"
                                         THEN DurableValue(db, last'.Namespace, last'.Key)
                                         ELSE NoValue]_vars

(* without a cache backend a fetch returned the row a create had inserted *)
C15_Witness ==
    /\ ~redis
    /\ last.op = "fetch"
    /\ last.err = "none"
    /\ last.durable = "none"
    /\ last.Value = DurableValue(db, last.Namespace, last.Key)
    /\ cache = EmptyCache

(* C18, as stated: started with --no-redis, the program opens no Redis      *)
(* connection, its ConfigDAO has no cache backend and no call writes a      *)
(* cache record.  Fails in the code: InitializeApp calls InitRedis and      *)
(* hands the client to the DAO whatever the flag says.                      *)
C18_NoRedisFlagHonoured ==
    noRedis => (~redis /\ cache = EmptyCache)

(* C19, as stated: a create through the service for a (namespace, key) that *)
(* has a live row returns ConflictError and leaves the durable rows as they *)
(* were.  Fails in the code: when the duplicate check itself returns an     *)
(* error the service takes the key for absent and inserts.                  *)
C19_ExistingKeyConflicts ==
    [][(last'.op = "svc.create" /\ Matching(db, last'.Namespace, last'.Key) # {})
       => (last'.err = "ConflictError" /\ db' = db)]_vars

(* C16: staleness under races is bounded.  A fetch that missed the cache    *)
(* and is overtaken by a write of its key may leave the value read before   *)
(* the write in the cache; every record, that one included, is held for     *)
(* less than TTL minutes after it was written, no step extends a record's  *)
(* lifetime without writing the record anew, a fetch served from the cache  *)
(* returns a record younger than TTL, and a write of the durable store      *)
(* leaves no other value cached under the key it wrote.                     *)
C16_BoundedStaleness ==
    [][/\ \A k \in DOMAIN cache' :
             cache'[k].age < TTL /\ cache'[k].age + cache'[k].ttl = TTL
       /\ \A k \in DOMAIN cache \cap DOMAIN cache' :
             cache'[k].ttl > cache[k].ttl => cache'[k].age = 0
       /\ (last'.op = "fetch" /\ last'.durable = "skipped")
             => (/\ Held(cache, CK(last'))
                 /\ cache[CK(last')].value = last'.Value
                 /\ cache[CK(last')].age < TTL)
       /\ \A i \in 1..Len(db') :
             (i > Len(db) \/ db'[i] # db[i])
             => IF db'[i].Deleted
                THEN ~Held(cache', CacheKey(db[i].Namespace, db[i].Key))
                ELSE LET k == CacheKey(db'[i].Namespace, db'[i].Key)
                     IN Held(cache', k) => cache'[k].value = db'[i].Value]_vars

(* a fetch overtaken by a write of its key has returned the value it read   *)
(* before the write and left it in the cache                                *)
C16_Witness ==
    /\ last.op = "fetch"
    /\ last.durable = "none"
    /\ last.Value # DurableValue(db, last.Namespace, last.Key)
    /\ Held(cache, CK(last))
    /\ cache[CK(last)].value = last.Value

(* C17: the duplicate-creation race.  The service's create reads            *)
(* (namespace, key) before it inserts, and the two steps are not atomic:    *)
(* the check passes only when it finds no live row and no cached record,    *)
(* and changes nothing; the insert of a create whose check has passed adds  *)
(* its row whatever rows the store holds by then, a live row of the same    *)
(* (namespace, key) included.                                               *)
C17_CheckThenInsert ==
    [][/\ (pending.op = "none" /\ pending'.op = "svc.create")
             => (/\ Matching(db, pending'.config.Namespace, pending'.config.Key) = {}
                 /\ ~Held(cache, CK(pending'.config))
                 /\ db' = db /\ cache' = cache)
       /\ (pending.op = "svc.create" /\ pending'.op = "none")
             => (/\ last'.err = "none"
                 /\ db' = Append(db, Configuration(pending.config.Namespace,
                                                   pending.config.Key,
                                                   pending.config.Value,
                                                   pending.config.Description)))]_vars

(* a create whose check had passed has inserted a second live row of its    *)
(* (namespace, key): another create of the key ran between its two steps    *)
C17_Witness ==
    /\ last.op = "svc.create"
    /\ last.err = "none"
    /\ Cardinality(Matching(db, last.Namespace, last.Key)) = 2
    /\ \A i \in 1..Len(db) : ~db[i].Deleted

(* C20: an update or a delete made through the service on an id that has no *)
(* live row when the DAO is called, whether the row was missing at the      *)
(* service's existence check or was deleted by another call after it,       *)
(* returns a NotFoundError and leaves the durable store and the cache as    *)
(* they were.                                                               *)
C20_MissingIdNotFound ==
    [][(/\ pending.op \in {"svc.update", "svc.delete"}
        /\ pending'.op = "none"
        /\ ~Live(db, pending.config.ID))
       => (/\ last'.err = "NotFoundError"
           /\ db' = db
           /\ cache' = cache)]_vars

(* C21: the service's GetConfiguration, GetSpecificConfiguration and        *)
(* CreateConfiguration, called with an empty namespace or key (for create   *)
(* also a missing or non-string one), return a ValidationError naming the   *)
(* field, the namespace first, without reaching the cache or the durable    *)
(* store: no failure of either shows in the result and both are unchanged.  *)
C21_ValidationFirst ==
    [][LET badNamespace == last'.Namespace \in {"", Absent, NotAString}
           badKey == last'.Key \in {"", Absent, NotAString}
       IN (/\ last'.op \in {"svc.get", "svc.getspecific", "svc.create"}
           /\ (badNamespace \/ badKey))
          => (/\ last'.err = "ValidationError"
              /\ last'.field = IF badNamespace THEN "namespace" ELSE "key"
              /\ last'.durable = "skipped"
              /\ db' = db
              /\ cache' = cache)]_vars

(* a create whose key is not a string was refused while the store held a row *)
(* and the cache a record                                                    *)
C21_Witness ==
    /\ last.op = "svc.create"
    /\ last.Namespace \in Namespaces
    /\ last.Key = NotAString
    /\ last.err = "ValidationError"
    /\ last.field = "key"
    /\ db # <<>>
    /\ cache # EmptyCache

(* C22: the start tolerates a missing cache and not a missing database.     *)
(* Once InitializeApp has returned: when the database answered there is an  *)
(* application context, whose ConfigDAO has a cache exactly when Redis      *)
(* answered; when the database did not answer InitializeApp returned an     *)
(* error and no context, and no call is ever served.                        *)
C22_StartNeedsDatabaseOnly ==
    pending.op # "init"
    => IF env.db
       THEN pending.op # "exit" /\ redis = env.redis
       ELSE pending.op = "exit" /\ db = <<>> /\ cache = EmptyCache /\ ~redis

(* started without Redis, the application has stored a row and cached nothing *)
C22_Witness ==
    /\ env = [db |-> TRUE, redis |-> FALSE]
    /\ pending.op = "none"
    /\ ~redis
    /\ db # <<>>
    /\ cache = EmptyCache

(* C23: the request and error counters lose no update.  In every            *)
(* interleaving of the goroutines, GetRequestCount equals the number of     *)
(* IncrementRequestCount calls that have returned and GetErrorCount the     *)
(* number of IncrementErrorCount calls that have returned, and no step      *)
(* makes either smaller.                                                    *)
C23_CountersExact ==
    [][/\ GetRequestCount' = counted'.request
       /\ GetErrorCount' = counted'.error
       /\ requestCount' >= requestCount
       /\ errorCount' >= errorCount]_vars

(* two goroutines counted a request each, the second having entered before  *)
(* the first one's add                                                      *)
C23_Witness ==
    /\ requestCount = 2
    /\ \E g \in Goroutines : goroutine[g].pc = "request" /\ goroutine[g].seen < requestCount

(* C24, as stated: for every page and page size the listing uses page 1     *)
(* when page < 1 and page size 20 when the size is below 1 or above 100,    *)
(* the offset of the query is not negative, and total_pages is the least n  *)
(* with n * page_size >= total.  Fails in the code: the offset is a 64-bit  *)
(* product that wraps for a large page.                                     *)
C24_Pagination ==
    listing.called
    => LET r == listing.response
       IN /\ r.page = IF IsNegative(listing.page) \/ listing.page = IntOf(0)
                      THEN IntOf(1) ELSE listing.page
          /\ r.page_size = IF listing.pageSize \in 1..100 THEN listing.pageSize ELSE 20
          /\ ~IsNegative(r.offset)
          /\ r.total_pages * r.page_size >= r.total
          /\ \A n \in 0..MaxTotal : n * r.page_size >= r.total => n >= r.total_pages

(* C25, as stated: two different (namespace, key) pairs never have the same *)
(* cache key, the ':' in a namespace or key notwithstanding, and a fetch of *)
(* (namespace, key) never returns a value cached for another pair: what it  *)
(* returns is the value of a row of its own pair.  Fails in the code: the   *)
(* parts are joined with ':' unescaped.                                     *)
C25_CacheKeyInjective ==
    [][/\ \A n1, n2 \in DelimitedNamespaces, k1, k2 \in DelimitedKeys :
             CacheKey(n1, k1) = CacheKey(n2, k2) => (n1 = n2 /\ k1 = k2)
       /\ (last'.op = "fetch" /\ last'.err = "none")
             => \E i \in Matching(db, last'.Namespace, last'.Key) :
                   db[i].Value = last'.Value]_vars

(* C26, as stated: after any sequence of creates, updates and deletes made  *)
(* through the service one after the other, no store or cache call failing, *)
(* the durable store holds at most one live row for each (namespace, key).  *)
(* Fails in the code: an update may give an entry the key of another.       *)
C26_SequentialUniqueness ==
    \A namespace \in Namespaces, key \in Keys :
       Cardinality(Matching(db, namespace, key)) <= 1

C28_RenameMovesEntry ==
    [][\A id \in 1..Len(db) :
          (/\ last'.op = "svc.update" /\ last'.ID = id /\ last'.err = "none"
           /\ Live(db, id)
           /\ db'[id].Key # db[id].Key
           /\ \A j \in 1..Len(db) :
                 (j # id /\ Live(db, j)) => db[j].Key \notin {db[id].Key, db'[id].Key})
          => LET old == GetConfiguration(db', cache', redis', db[id].Namespace, db[id].Key,
                                         NoFault)
                 new == GetConfiguration(db', cache', redis', db'[id].Namespace,
                                         db'[id].Key, NoFault)
             IN /\ old.err = "notfound"
                /\ new.err = "none"
                /\ new.config.Value = db'[id].Value]_vars

(* C29, as stated: when two updates of one entry overlap, in any order of   *)
(* their durable saves and cache sets, and both have returned, the cache    *)
(* record of the entry's key holds the value of the durable row.  Fails:    *)
(* the update that saved first may set the cache last.                      *)
C29_OverlappingUpdatesConverge ==
    (/\ last.op = "update"
     /\ \A p \in Updaters : updating[p].op = "none")
    => (/\ Held(cache, CK(last))
        /\ cache[CK(last)].value = db[last.ID].Value)

(* C29, amended: of two overlapping updates of one entry the durable row    *)
(* keeps the value of the one that saved last and the cache record the      *)
(* value of the one that set the cache last, with the full time to live:    *)
(* each save writes its value to the row and leaves the cache alone, each   *)
(* cache set writes its own update's value and leaves the rows alone.       *)
C29_LastSaveLastSet ==
    [][\A p \in Updaters :
          /\ (updating[p].op = "none" /\ updating'[p].op = "update")
                => (/\ db'[updating'[p].config.ID].Value = updating'[p].config.Value
                    /\ cache' = cache)
          /\ (updating[p].op = "update" /\ updating'[p].op = "none")
                => (/\ db' = db
                    /\ cache'[CK(updating[p].config)]
                          = [value |-> updating[p].config.Value, age |-> 0, ttl |-> TTL])]_vars

(* both updates have returned; the row holds the value of the one and the   *)
(* cache the value of the other                                             *)
C29_Witness ==
    /\ last.op = "update"
    /\ \A p \in Updaters : updating[p].op = "none"
    /\ db[last.ID].Key = last.Key
    /\ cache[CK(last)].value = last.Value
    /\ db[last.ID].Value # last.Value

(* C30, as stated: after any sequence of LogDAO.Upsert calls, overlapping   *)
(* ones for one pair included, the logs table holds at most one row for     *)
(* each (client_id, file_name).  Fails in the code: two calls that both     *)
(* query before either writes both create a row.                            *)
C30_OneRowPerFile ==
    \A i, j \in 1..Len(logs) :
       (logs[i].ClientID = logs[j].ClientID /\ logs[i].FileName = logs[j].FileName)
       => i = j

====
